---- MODULE Spec2Model ----
(***************************************************************************)
(* A model of the transcript-similarity repository:                        *)
(*   - vectorizer.py : the two vectorizer variants and their factory       *)
(*   - db.py         : VectorStore over one Postgres connection            *)
(*   - firm_sim_by_period.py : the KO/PEP aggregation and similarity run   *)
(*   - comovement_new.py : rolling correlation, quarters, the left join    *)
(*   - pdf_reader.py : the walk over the PDF directories                   *)
(*   - pipeline.py   : store_embeddings, one insert per ticker             *)
(*   - download_data.py : load_prices with retries and a fallback source   *)
(* Each component has its own specification over the variables it owns.    *)
(***************************************************************************)
EXTENDS Integers, Sequences, FiniteSets, TLC

VARIABLES
    vec,        \* the vectorizer instance the caller holds (kind = "none" before any)
    vecCall,    \* the last vectorizer call: its arguments and how it ended
    fitCalled,  \* history: fit() has been called on the current instance
    conn,       \* VectorStore._conn: "none" | "open" | "closed"
    embed_dim,  \* VectorStore.embed_dim
    schema,     \* the dimension document_embeddings was created with, 0 = no table
    table,      \* the committed rows of document_embeddings, in insertion order
    nextId,     \* the next value of the id SERIAL sequence
    storeCall,  \* the last VectorStore call: its arguments and how it ended
    meta,       \* rows of transcripts_clean.csv
    docs,       \* rows of document_embeddings.csv
    aggCall,    \* the last run of firm_sim_by_period.main: outcome and written rows
    rets,       \* the arguments of compute_rolling_corr: two return series and a window
    corrCall,   \* the last compute_rolling_corr call and the quarters made of its result
    coIn,       \* the files comovement_new.main reads: two price files and the period table
    coCall,     \* the last run of comovement_new.main: outcome and written table
    tree,       \* the directory tree iter_documents walks
    pdfCall,    \* the last iter_documents call: the Documents it yielded
    pipeIn,     \* the documents and embeddings the pipeline holds
    pipeCall,   \* the last store_embeddings call: the insert_documents calls it made
    dl          \* load_prices in progress: position, attempts made, how each ended

vecVars   == <<vec, vecCall, fitCalled>>
storeVars == <<conn, embed_dim, schema, table, nextId, storeCall>>
aggVars   == <<meta, docs, aggCall>>
extVars   == <<rets, corrCall, coIn, coCall, tree, pdfCall, pipeIn, pipeCall, dl>>
vars      == <<vec, vecCall, fitCalled, conn, embed_dim, schema, table, nextId,
               storeCall, meta, docs, aggCall, rets, corrCall, coIn, coCall,
               tree, pdfCall, pipeIn, pipeCall, dl>>

\* ------------------------------------------------------------------ bounds
MaxDim      == 3    \* largest max_features / native model dimension tried
MaxTexts    == 2    \* longest list of texts passed to fit / transform
MaxId       == 3    \* ids the SERIAL sequence may hand out
MaxMeta     == 4    \* rows of transcripts_clean.csv
MaxDocs     == 2    \* rows of document_embeddings.csv
MaxWindow   == 3    \* largest rolling window tried (ROLLING_WINDOW, scaled down)
MaxBase     == 2    \* rows of the period table
MaxPipeDocs == 2    \* documents passed to store_embeddings

\* ------------------------------------------------------------ generic helpers
Min(a, b) == IF a < b THEN a ELSE b

SeqsUpTo(S, n) == UNION { [1..k -> S] : k \in 0..n }

RECURSIVE SetToSortedSeq(_)
SetToSortedSeq(S) ==
    IF S = {} THEN <<>>
    ELSE LET m == CHOOSE x \in S : \A y \in S : x <= y
         IN  <<m>> \o SetToSortedSeq(S \ {m})

\* ======================================================================
\* vectorizer.py
\* ======================================================================

\* Tokens are numbered; token 0 is on sklearn's "english" stop-word list.
Terms     == {0, 1, 2}
StopWords == {0}

\* The texts tried: empty, stop words only, one term, two terms, a repeated term.
TextSamples == { <<>>, <<0>>, <<0, 0>>, <<1>>, <<1, 2>>, <<2, 2, 1>> }
Corpora     == SeqsUpTo(TextSamples, MaxTexts)
Dims        == 1..MaxDim

NoVec == [kind |-> "none", _max_features |-> 0, _dim |-> 0,
          _fitted |-> FALSE, vocabulary_ |-> {}]

\* How a call ends: it returns a value or raises an error.
Return(v)   == [outcome |-> "return", err |-> "none", value |-> v]
Raise(e, v) == [outcome |-> "raise",  err |-> e,      value |-> v]

\* A bug TfidfVectorizerWrapper.__init__ could have: born fitted.
TfidfBornFitted(max_features) ==
    [kind |-> "tfidf", _max_features |-> max_features, _dim |-> 0,
     _fitted |-> TRUE, vocabulary_ |-> {}]

\* TfidfVectorizerWrapper.__init__
TfidfVectorizerWrapper(max_features) ==
    [kind |-> "tfidf", _max_features |-> max_features, _dim |-> 0,
     _fitted |-> FALSE, vocabulary_ |-> {}]

\* The environment of FinanceEmbeddingVectorizer.__init__: whether the lazy
\* import works, whether SentenceTransformer(model_name) loads, whether
\* model.to(device) works, and the model's native dimension.
Envs == [import : {"ok", "fail"}, load : {"ok", "OSError"},
         to : {"ok", "fail"}, native : Dims]

\* FinanceEmbeddingVectorizer.__init__: the import failure is re-raised as
\* ImportError, a load failure propagates as it is, a failing .to(device) is
\* swallowed; the instance is born fitted, with the model's dimension.
FinanceEmbeddingVectorizer(device, env) ==
    IF env.import = "fail" THEN Raise("ImportError", NoVec)
    ELSE IF env.load # "ok" THEN Raise(env.load, NoVec)
    ELSE Return([kind |-> "finance", _max_features |-> 0, _dim |-> env.native,
                 _fitted |-> TRUE, vocabulary_ |-> {}])

\* The factory as its docstring describes it (the commented-out line 109):
\* a failed finance construction falls back to TF-IDF.
get_vectorizer_fallback(prefer_finance, tfidf_dim, device, env) ==
    IF prefer_finance
    THEN LET r == FinanceEmbeddingVectorizer(device, env)
         IN  IF r.outcome = "return" THEN r
             ELSE Return(TfidfVectorizerWrapper(tfidf_dim))
    ELSE Return(TfidfVectorizerWrapper(tfidf_dim))

\* get_vectorizer: the except clause re-raises the caught error.
get_vectorizer(prefer_finance, tfidf_dim, device, env) ==
    IF prefer_finance
    THEN LET r == FinanceEmbeddingVectorizer(device, env)
         IN  IF r.outcome = "return" THEN r
             ELSE Raise(r.err, NoVec)
    ELSE Return(TfidfVectorizerWrapper(tfidf_dim))

\* Occurrences of term t in one text / in the corpus.
RECURSIVE CountIn(_, _)
CountIn(t, text) ==
    IF text = <<>> THEN 0
    ELSE (IF Head(text) = t THEN 1 ELSE 0) + CountIn(t, Tail(text))

RECURSIVE TermFreq(_, _)
TermFreq(t, texts) ==
    IF texts = <<>> THEN 0
    ELSE CountIn(t, Head(texts)) + TermFreq(t, Tail(texts))

\* The terms sklearn counts: those that occur and are not stop words.
Candidates(texts) == { t \in Terms \ StopWords : TermFreq(t, texts) > 0 }

\* TfidfVectorizer.fit with max_features: the vocabularies it can build are
\* the sets of the min(max_features, #candidates) most frequent candidates
\* (ties between equally frequent terms are broken by the sort).
Vocabularies(max_features, texts) ==
    LET cand == Candidates(texts)
        n    == Min(max_features, Cardinality(cand))
    IN  { V \in SUBSET cand :
              /\ Cardinality(V) = n
              /\ \A a \in V : \A b \in cand \ V :
                    TermFreq(a, texts) >= TermFreq(b, texts) }

\* One row of TfidfVectorizer.transform: one weight per vocabulary term, in
\* feature order, zero exactly when the term is absent from the text (the
\* weight itself is abstracted to the term's count).
TfidfRow(vocab, text) ==
    LET feats == SetToSortedSeq(vocab)
    IN  [i \in 1..Len(feats) |-> CountIn(feats[i], text)]

\* A matrix: numpy keeps the shape even when there are no rows.
Matrix(rows, width) == [rows |-> rows, shape |-> <<Len(rows), width>>]
NoMatrix == Matrix(<<>>, 0)

\* TfidfVectorizerWrapper.transform
TfidfTransform(v, texts) ==
    IF ~v._fitted THEN Raise("RuntimeError", NoMatrix)
    ELSE Return(Matrix([i \in 1..Len(texts) |-> TfidfRow(v.vocabulary_, texts[i])],
                       Cardinality(v.vocabulary_)))

\* FinanceEmbeddingVectorizer.transform: model.encode yields one vector of the
\* model's dimension per text (the values are opaque: 1 stands for a float).
FinanceTransform(v, texts) ==
    IF ~v._fitted THEN Raise("RuntimeError", NoMatrix)
    ELSE IF texts = <<>> THEN Return(Matrix(<<>>, v._dim))
    ELSE Return(Matrix([i \in 1..Len(texts) |-> [j \in 1..v._dim |-> 1]], v._dim))

\* BaseVectorizer.transform, dispatched on the variant.
transform(v, texts) ==
    IF v.kind = "tfidf" THEN TfidfTransform(v, texts) ELSE FinanceTransform(v, texts)

\* The dim property of either variant.
dim(v) == IF v.kind = "tfidf" THEN v._max_features ELSE v._dim

\* --------------------------------------------------------------- actions
NoVecCall == [op |-> "none", outcome |-> "none", err |-> "none",
              prefer_finance |-> FALSE, ctorErr |-> "none",
              result |-> NoMatrix, dimBefore |-> 0]

\* A caller asks the factory for a vectorizer.
GetVectorizer ==
    \E prefer_finance \in BOOLEAN, tfidf_dim \in Dims,
       device \in {"None", "cpu"}, env \in Envs :
        LET r == get_vectorizer(prefer_finance, tfidf_dim, device, env)
            c == FinanceEmbeddingVectorizer(device, env)
        IN  /\ vec' = IF r.outcome = "return" THEN r.value ELSE NoVec
            /\ fitCalled' = FALSE
            /\ vecCall' = [NoVecCall EXCEPT
                    !.op = "get_vectorizer", !.outcome = r.outcome, !.err = r.err,
                    !.prefer_finance = prefer_finance,
                    !.ctorErr = IF c.outcome = "raise" THEN c.err ELSE "none"]
            /\ UNCHANGED <<storeVars, aggVars, extVars>>

\* fit(texts) on the instance held. TF-IDF: sklearn raises ValueError on an
\* empty vocabulary, before _fitted is set. Finance: no-op that sets _fitted.
Fit ==
    /\ vec.kind # "none"
    /\ \E texts \in Corpora :
        /\ IF vec.kind = "tfidf"
           THEN IF Candidates(texts) = {}
                THEN /\ vec' = vec
                     /\ vecCall' = [NoVecCall EXCEPT !.op = "fit",
                            !.outcome = "raise", !.err = "ValueError",
                            !.dimBefore = dim(vec)]
                ELSE \E V \in Vocabularies(vec._max_features, texts) :
                     /\ vec' = [vec EXCEPT !.vocabulary_ = V, !._fitted = TRUE]
                     /\ vecCall' = [NoVecCall EXCEPT !.op = "fit",
                            !.outcome = "return", !.dimBefore = dim(vec)]
           ELSE /\ vec' = [vec EXCEPT !._fitted = TRUE]
                /\ vecCall' = [NoVecCall EXCEPT !.op = "fit",
                       !.outcome = "return", !.dimBefore = dim(vec)]
        /\ fitCalled' = TRUE
    /\ UNCHANGED <<storeVars, aggVars, extVars>>

\* transform(texts) on the instance held.
Transform ==
    /\ vec.kind # "none"
    /\ \E texts \in Corpora :
        LET r == transform(vec, texts)
        IN  vecCall' = [NoVecCall EXCEPT !.op = "transform",
                !.outcome = r.outcome, !.err = r.err, !.result = r.value,
                !.dimBefore = dim(vec)]
    /\ UNCHANGED <<vec, fitCalled, storeVars, aggVars, extVars>>

\* ======================================================================
\* db.py
\* ======================================================================
None == "None"                       \* Python None / SQL NULL in a text field

StoreTickers == {"KO", "PEP"}
DocIds       == {"a.pdf"}            \* one file name, so stored ids repeat
StoreDims    == {2}                  \* embed_dim of the stores constructed
Widths       == {1, 2}               \* shape[1] of the embeddings passed
BatchSizes   == {0, 1, 2}            \* list lengths passed to insert_documents

\* zip(doc_ids, contents, period, embeddings): as many rows as the shortest.
Zip4(ticker, doc_ids, contents, period, rows) ==
    LET n == Min(Min(Len(doc_ids), Len(contents)), Min(Len(period), Len(rows)))
    IN  [i \in 1..n |-> [ticker |-> ticker, doc_id |-> doc_ids[i],
                         content |-> contents[i], period |-> period[i],
                         embedding |-> rows[i]]]

\* Why Postgres rejects one INSERT, or "none": the table is missing, a NOT
\* NULL column gets NULL, or the vector is not of the column's dimension.
InsertError(tableDim, r) ==
    IF tableDim = 0 THEN "UndefinedTable"
    ELSE IF r.ticker = None \/ r.doc_id = None \/ r.content = None
         THEN "NotNullViolation"
    ELSE IF Len(r.embedding) # tableDim THEN "DataException"
    ELSE "none"

\* Index of the first row of the batch Postgres rejects, 0 if none.
FirstBad(tableDim, batch) ==
    IF \E i \in 1..Len(batch) : InsertError(tableDim, batch[i]) # "none"
    THEN CHOOSE i \in 1..Len(batch) :
            /\ InsertError(tableDim, batch[i]) # "none"
            /\ \A j \in 1..(i - 1) : InsertError(tableDim, batch[j]) = "none"
    ELSE 0

\* The stored row: the batch row with its id drawn from the sequence.
Stored(r, id) == [id |-> id, ticker |-> r.ticker, doc_id |-> r.doc_id,
                  content |-> r.content, period |-> r.period,
                  embedding |-> r.embedding]

\* The batch row a stored row came from.
Unstored(s) == [ticker |-> s.ticker, doc_id |-> s.doc_id, content |-> s.content,
                period |-> s.period, embedding |-> s.embedding]

AppendRows(tbl, batch, firstId) ==
    tbl \o [i \in 1..Len(batch) |-> Stored(batch[i], firstId + i - 1)]

\* What one call leaves behind.
StoreResult(outcome, err, c, tbl, nid) ==
    [outcome |-> outcome, err |-> err, conn |-> c, table |-> tbl, nextId |-> nid]

\* A bug insert_documents could have: the connection in autocommit mode, so
\* the rows before the rejected one stay.
InsertAutocommit(c, tableDim, tbl, nid, batch) ==
    LET k == FirstBad(tableDim, batch)
    IN  IF k = 0
        THEN StoreResult("return", "none", c, AppendRows(tbl, batch, nid),
                         nid + Len(batch))
        ELSE StoreResult("raise", InsertError(tableDim, batch[k]), c,
                         AppendRows(tbl, SubSeq(batch, 1, k - 1), nid),
                         IF tableDim = 0 THEN nid ELSE nid + k)

\* The loop under "with self._conn": every INSERT runs in one transaction,
\* committed on normal exit and rolled back when an INSERT raises. A rejected
\* INSERT on an existing table has already drawn its id, and a rollback does
\* not return ids to the sequence.
InsertTransaction(c, tableDim, tbl, nid, batch) ==
    LET k == FirstBad(tableDim, batch)
    IN  IF k = 0
        THEN StoreResult("return", "none", c, AppendRows(tbl, batch, nid),
                         nid + Len(batch))
        ELSE StoreResult("raise", InsertError(tableDim, batch[k]), c, tbl,
                         IF tableDim = 0 THEN nid ELSE nid + k)

\* The embeddings argument, a numpy array of the given shape: iterating it
\* yields shape[1] items, vectors of shape[2] floats when it is 2-D (1 stands
\* for a float) and scalars (no vector at all) when it is 1-D.
Embeddings(shape) ==
    [shape |-> shape,
     rows  |-> IF Len(shape) = 2
               THEN [i \in 1..shape[1] |-> [j \in 1..shape[2] |-> 1]]
               ELSE [i \in 1..shape[1] |-> <<>>]]

\* embeddings.ndim != 2 or embeddings.shape[1] != self.embed_dim
BadShape(shape, dimCfg) == Len(shape) # 2 \/ shape[2] # dimCfg

EmbShapes == { <<2>> } \cup { <<n, w>> : n \in BatchSizes, w \in Widths }

\* A bug insert_documents could have: no shape check before the transaction.
insert_documents_unchecked(c, dimCfg, tableDim, tbl, nid, ticker, doc_ids, contents, period, embeddings) ==
    IF c # "open" THEN StoreResult("raise", "InterfaceError", c, tbl, nid)
    ELSE InsertTransaction(c, tableDim, tbl, nid,
             Zip4(ticker, doc_ids, contents, period, embeddings.rows))

\* A bug insert_documents could have: ON CONFLICT (doc_id) DO UPDATE, so a
\* doc_id already stored is overwritten in place instead of added.
insert_documents_upsert(c, dimCfg, tableDim, tbl, nid, ticker, doc_ids, contents, period, embeddings) ==
    IF BadShape(embeddings.shape, dimCfg)
    THEN StoreResult("raise", "ValueError", c, tbl, nid)
    ELSE IF c # "open" THEN StoreResult("raise", "InterfaceError", c, tbl, nid)
    ELSE LET batch == Zip4(ticker, doc_ids, contents, period, embeddings.rows)
             fresh == SelectSeq(batch,
                        LAMBDA r : \A i \in 1..Len(tbl) : tbl[i].doc_id # r.doc_id)
             upd   == [i \in 1..Len(tbl) |->
                        IF \E j \in 1..Len(batch) : batch[j].doc_id = tbl[i].doc_id
                        THEN [tbl[i] EXCEPT !.ticker = ticker] ELSE tbl[i]]
         IN  InsertTransaction(c, tableDim, upd, nid, fresh)

\* A bug insert_documents could have: the connection scoped to the call
\* (contextlib.closing), so it is closed whenever the call ends.
insert_documents_closing(c, dimCfg, tableDim, tbl, nid, ticker, doc_ids, contents, period, embeddings) ==
    IF BadShape(embeddings.shape, dimCfg)
    THEN StoreResult("raise", "ValueError", c, tbl, nid)
    ELSE IF c # "open" THEN StoreResult("raise", "InterfaceError", c, tbl, nid)
    ELSE [InsertTransaction(c, tableDim, tbl, nid,
              Zip4(ticker, doc_ids, contents, period, embeddings.rows))
          EXCEPT !.conn = "closed"]

\* VectorStore.insert_documents: the shape check, then the transaction on the
\* store's connection (entering "with" on a closed connection raises).
insert_documents(c, dimCfg, tableDim, tbl, nid, ticker, doc_ids, contents, period, embeddings) ==
    IF BadShape(embeddings.shape, dimCfg)
    THEN StoreResult("raise", "ValueError", c, tbl, nid)
    ELSE IF c # "open" THEN StoreResult("raise", "InterfaceError", c, tbl, nid)
    ELSE InsertTransaction(c, tableDim, tbl, nid,
             Zip4(ticker, doc_ids, contents, period, embeddings.rows))

\* --------------------------------------------------------------- actions
NoStoreCall == [op |-> "none", outcome |-> "none", err |-> "none",
                connBefore |-> "none", before |-> <<>>, batch |-> <<>>,
                nDocs |-> 0, shape |-> <<>>]

\* VectorStore(embed_dim): psycopg2.connect either connects or raises.
NewStore ==
    /\ conn \in {"none", "closed"}
    /\ \E d \in StoreDims, ok \in BOOLEAN :
        /\ conn' = IF ok THEN "open" ELSE conn
        /\ embed_dim' = IF ok THEN d ELSE embed_dim
        /\ storeCall' = [NoStoreCall EXCEPT !.op = "__init__",
               !.outcome = IF ok THEN "return" ELSE "raise",
               !.err = IF ok THEN "none" ELSE "OperationalError",
               !.connBefore = conn, !.before = table]
    /\ UNCHANGED <<schema, table, nextId, vecVars, aggVars, extVars>>

\* init_schema: CREATE TABLE IF NOT EXISTS keeps an existing table, whatever
\* dimension it was created with.
InitSchema ==
    /\ conn # "none"
    /\ schema' = IF conn = "open" /\ schema = 0 THEN embed_dim ELSE schema
    /\ storeCall' = [NoStoreCall EXCEPT !.op = "init_schema",
           !.outcome = IF conn = "open" THEN "return" ELSE "raise",
           !.err = IF conn = "open" THEN "none" ELSE "InterfaceError",
           !.connBefore = conn, !.before = table]
    /\ UNCHANGED <<conn, embed_dim, table, nextId, vecVars, aggVars, extVars>>

\* insert_documents(ticker, doc_ids, contents, period, embeddings)
InsertDocuments ==
    /\ conn # "none"
    /\ \E ticker \in StoreTickers, nd \in BatchSizes, shape \in EmbShapes :
       \E doc_ids \in [1..nd -> DocIds \cup {None}] :
        LET contents   == [i \in 1..nd |-> "text"]
            period     == [i \in 1..nd |-> "Q1 2020"]
            embeddings == Embeddings(shape)
            r == insert_documents(conn, embed_dim, schema, table, nextId,
                                  ticker, doc_ids, contents, period, embeddings)
        IN  /\ r.nextId <= MaxId + 1
            /\ conn' = r.conn
            /\ table' = r.table
            /\ nextId' = r.nextId
            /\ storeCall' = [op |-> "insert_documents", outcome |-> r.outcome,
                   err |-> r.err, connBefore |-> conn, before |-> table,
                   batch |-> Zip4(ticker, doc_ids, contents, period, embeddings.rows),
                   nDocs |-> nd, shape |-> shape]
    /\ UNCHANGED <<embed_dim, schema, vecVars, aggVars, extVars>>

\* close()
Close ==
    /\ conn # "none"
    /\ conn' = "closed"
    /\ storeCall' = [NoStoreCall EXCEPT !.op = "close", !.outcome = "return",
           !.connBefore = conn, !.before = table]
    /\ UNCHANGED <<embed_dim, schema, table, nextId, vecVars, aggVars, extVars>>

\* ======================================================================
\* firm_sim_by_period.py
\* ======================================================================
\* A string is the sequence of its code points, so that lower-casing and the
\* lexicographic order are computed and not assumed. NaN (an empty CSV cell)
\* is the empty sequence.
NaN == <<>>

\* str.lower on one code point ("A".."Z" are 65..90) and on a string.
LowerChar(c) == IF c >= 65 /\ c <= 90 THEN c + 32 ELSE c
Lower(str)   == [i \in 1..Len(str) |-> LowerChar(str[i])]

\* Python's order on str: the first differing code point decides, a proper
\* prefix comes first.
RECURSIVE LexLess(_, _)
LexLess(a, b) ==
    IF b = <<>> THEN FALSE
    ELSE IF a = <<>> THEN TRUE
    ELSE IF Head(a) # Head(b) THEN Head(a) < Head(b)
    ELSE LexLess(Tail(a), Tail(b))

\* The file names and period labels tried.
FileA    == <<65>>                       \* "A"
FileB    == <<98>>                       \* "b"
DocIdA   == <<97>>                       \* "a", matches "A" once lower-cased
DocIdB   == <<66>>                       \* "B", matches "b" once lower-cased
P19Q4    == <<49, 57, 81, 52>>           \* "19Q4"
P20Q1    == <<50, 48, 81, 49>>           \* "20Q1"
PeriodLabels == {P19Q4, P20Q1}

MetaRow(f, t, p) == [source_file |-> f, ticker |-> t, period |-> p]
DocRow(d, e)     == [doc_id |-> d, ticker |-> "KO", embedding |-> e]

\* Rows of transcripts_clean.csv tried: both firms in both quarters (KO's
\* second-quarter file is another file), and both firms with an empty period.
MetaRows == { MetaRow(FileA, "KO", P19Q4), MetaRow(FileA, "PEP", P19Q4),
              MetaRow(FileB, "KO", P20Q1), MetaRow(FileA, "PEP", P20Q1),
              MetaRow(FileA, "KO", NaN),   MetaRow(FileA, "PEP", NaN) }

\* Rows of document_embeddings.csv tried: an embedding for each file, and a
\* row whose embedding cell is empty.
DocRows == { DocRow(DocIdA, <<1, 0>>), DocRow(DocIdB, <<0, 1>>), DocRow(DocIdA, NaN) }

\* A bug the join could have: each metadata row joined to its first matching
\* embedding row only (as after drop_duplicates on the key).
RECURSIVE MergeFirstMatch(_, _)
MergeFirstMatch(m, d) ==
    IF m = <<>> THEN <<>>
    ELSE LET l == Head(m)
             matches == SelectSeq(d, LAMBDA r : Lower(r.doc_id) = Lower(l.source_file))
         IN  [i \in 1..Min(1, Len(matches)) |->
                 [source_file |-> l.source_file, ticker_x |-> l.ticker,
                  period |-> l.period, doc_id |-> matches[i].doc_id,
                  ticker_y |-> matches[i].ticker, vec |-> matches[i].embedding]]
             \o MergeFirstMatch(Tail(m), d)

\* meta.merge(docs, left_on=source_file_clean, right_on=doc_id_clean,
\* how="inner"): for each meta row in order, its matching docs rows in order.
RECURSIVE Merge(_, _)
Merge(m, d) ==
    IF m = <<>> THEN <<>>
    ELSE LET l == Head(m)
             matches == SelectSeq(d, LAMBDA r : Lower(r.doc_id) = Lower(l.source_file))
         IN  [i \in 1..Len(matches) |->
                 [source_file |-> l.source_file, ticker_x |-> l.ticker,
                  period |-> l.period, doc_id |-> matches[i].doc_id,
                  ticker_y |-> matches[i].ticker, vec |-> matches[i].embedding]]
             \o Merge(Tail(m), d)

\* merged[merged["embedding"].notna()]
NotNa(merged) == SelectSeq(merged, LAMBDA r : r.vec # NaN)

\* The keys of merged.groupby("period"): the distinct non-NaN periods, in
\* ascending order.
RECURSIVE SortLabels(_)
SortLabels(S) ==
    IF S = {} THEN <<>>
    ELSE LET m == CHOOSE x \in S : \A y \in S \ {x} : LexLess(x, y)
         IN  <<m>> \o SortLabels(S \ {m})

GroupKeys(merged) ==
    SortLabels({ merged[i].period : i \in 1..Len(merged) } \ {NaN})

Group(merged, p) == SelectSeq(merged, LAMBDA r : r.period = p)

\* A bug the test on line 34 could have: the subset test the wrong way round.
QualifiesReversed(sub) ==
    { sub[i].ticker_x : i \in 1..Len(sub) } \subseteq {"KO", "PEP"}

\* {"KO", "PEP"}.issubset(tickers)
Qualifies(sub) ==
    {"KO", "PEP"} \subseteq { sub[i].ticker_x : i \in 1..Len(sub) }

\* Column sums and row count of the vectors of one firm: vecs.mean(axis=0) is
\* sum / n, kept as the pair so that no rounding is modelled.
RECURSIVE VecSum(_)
VecSum(vs) ==
    IF Len(vs) = 1 THEN Head(vs)
    ELSE LET rest == VecSum(Tail(vs))
         IN  [j \in 1..Len(Head(vs)) |-> Head(vs)[j] + rest[j]]

FirmVec(sub, t) ==
    LET vs == SelectSeq(sub, LAMBDA r : r.ticker_x = t)
    IN  [sum |-> VecSum([i \in 1..Len(vs) |-> vs[i].vec]), n |-> Len(vs)]

RECURSIVE Dot(_, _)
Dot(a, b) == IF a = <<>> THEN 0 ELSE Head(a) * Head(b) + Dot(Tail(a), Tail(b))

\* A bug the similarity could have: the plain quotient, which is 0/0 (NaN,
\* kept as den2 = 0) when a mean vector is zero.
CosineSimilarityUnguarded(a, b) ==
    [num |-> Dot(a.sum, b.sum), den2 |-> Dot(a.sum, a.sum) * Dot(b.sum, b.sum)]

\* sklearn's cosine_similarity of the two mean vectors: each is normalised (a
\* zero vector is left as it is), then the dot product. The value is kept
\* exact, as num / sqrt(den2); the row counts cancel.
CosineSimilarity(a, b) ==
    LET na2 == Dot(a.sum, a.sum)
        nb2 == Dot(b.sum, b.sum)
    IN  IF na2 = 0 \/ nb2 = 0 THEN [num |-> 0, den2 |-> 1]
        ELSE [num |-> Dot(a.sum, b.sum), den2 |-> na2 * nb2]

\* The loop body for one group: no record, a record, or the ValueError
\* np.vstack raises when a firm has no row in the group.
GroupRecord(merged, p) ==
    LET sub == Group(merged, p)
    IN  IF ~Qualifies(sub) THEN [kind |-> "skip"]
        ELSE IF \E t \in {"KO", "PEP"} : \A i \in 1..Len(sub) : sub[i].ticker_x # t
             THEN [kind |-> "ValueError"]
        ELSE [kind |-> "row",
              row |-> [period |-> p, ticker1 |-> "KO", ticker2 |-> "PEP",
                       cosine_similarity |->
                           CosineSimilarity(FirmVec(sub, "KO"), FirmVec(sub, "PEP"))]]

\* The records the loop appends, group by group.
RECURSIVE LoopRows(_, _)
LoopRows(merged, keys) ==
    IF keys = <<>> THEN <<>>
    ELSE LET g == GroupRecord(merged, Head(keys))
         IN  (IF g.kind = "row" THEN <<g.row>> ELSE <<>>)
             \o LoopRows(merged, Tail(keys))

LoopRaises(merged, keys) ==
    \E i \in 1..Len(keys) : GroupRecord(merged, keys[i]).kind = "ValueError"

\* Insertion of one record into records sorted by period.
RECURSIVE InsertSorted(_, _)
InsertSorted(r, sorted) ==
    IF sorted = <<>> THEN <<r>>
    ELSE IF LexLess(r.period, Head(sorted).period) THEN <<r>> \o sorted
    ELSE <<Head(sorted)>> \o InsertSorted(r, Tail(sorted))

RECURSIVE Reverse(_)
Reverse(q) == IF q = <<>> THEN <<>> ELSE Reverse(Tail(q)) \o <<Head(q)>>

RECURSIVE SortAscending(_)
SortAscending(rows) ==
    IF rows = <<>> THEN <<>>
    ELSE InsertSorted(Head(rows), SortAscending(Tail(rows)))

\* A bug line 56 could have: sort_values("period", ascending=False).
SortValuesDescending(rows) == Reverse(SortAscending(rows))

\* DataFrame.sort_values("period")
SortValues(rows) == SortAscending(rows)

\* A bug main could have: to_csv(OUT_CSV, mode="a"), so a run's file holds
\* the previous run's rows followed by its own.
main_append(m, d) ==
    LET merged == NotNa(Merge(m, d))
        keys   == GroupKeys(merged)
        rows   == LoopRows(merged, keys)
    IN  IF LoopRaises(merged, keys)
        THEN [outcome |-> "raise", err |-> "ValueError", out |-> <<>>]
        ELSE IF rows = <<>>
        THEN [outcome |-> "raise", err |-> "KeyError", out |-> <<>>]
        ELSE [outcome |-> "return", err |-> "none",
              out |-> aggCall.out \o SortValues(rows)]

\* main(): join, filter, group, one record per qualifying group, sort, write.
\* pd.DataFrame([]) has no column, so sort_values("period") raises KeyError
\* when the loop appended nothing, and nothing is written.
main(m, d) ==
    LET merged == NotNa(Merge(m, d))
        keys   == GroupKeys(merged)
        rows   == LoopRows(merged, keys)
    IN  IF LoopRaises(merged, keys)
        THEN [outcome |-> "raise", err |-> "ValueError", out |-> <<>>]
        ELSE IF rows = <<>>
        THEN [outcome |-> "raise", err |-> "KeyError", out |-> <<>>]
        ELSE [outcome |-> "return", err |-> "none", out |-> SortValues(rows)]

\* --------------------------------------------------------------- actions
\* What one run leaves: how it ended and the rows it wrote to OUT_CSV.
RunResult(r) == [outcome |-> r.outcome, err |-> r.err, out |-> r.out]

\* The last run: its result, the joined rows it worked on, how many runs were
\* made in a row on the files as they are (2 stands for two or more) and the
\* result of the first of them.
NoAggCall == [op |-> "none", outcome |-> "none", err |-> "none", out |-> <<>>,
              merged |-> <<>>, runs |-> 0,
              first |-> [outcome |-> "none", err |-> "none", out |-> <<>>]]

\* A row is appended to transcripts_clean.csv.
AddMeta ==
    /\ Len(meta) < MaxMeta
    /\ \E r \in MetaRows : meta' = Append(meta, r)
    /\ aggCall' = NoAggCall
    /\ UNCHANGED <<docs, vecVars, storeVars, extVars>>

\* A row is appended to document_embeddings.csv.
AddDoc ==
    /\ Len(docs) < MaxDocs
    /\ \E r \in DocRows : docs' = Append(docs, r)
    /\ aggCall' = NoAggCall
    /\ UNCHANGED <<meta, vecVars, storeVars, extVars>>

\* Rows tried for the similarity value: one quarter, one file per firm, and
\* embeddings that are zero, orthogonal, parallel or opposite.
MetaRowsVec == { MetaRow(FileA, "KO", P19Q4), MetaRow(FileB, "PEP", P19Q4) }
DocRowsVec  == { DocRow(id, e) : id \in {DocIdA, DocIdB},
                                 e \in {<<0, 0>>, <<1, 0>>, <<1, 1>>, <<-1, 0>>} }

\* A row of MetaRowsVec is appended to transcripts_clean.csv.
AddMetaVec ==
    /\ Len(meta) < MaxDocs
    /\ \E r \in MetaRowsVec : meta' = Append(meta, r)
    /\ aggCall' = NoAggCall
    /\ UNCHANGED <<docs, vecVars, storeVars, extVars>>

\* A row of DocRowsVec is appended to document_embeddings.csv.
AddDocVec ==
    /\ Len(docs) < MaxDocs
    /\ \E r \in DocRowsVec : docs' = Append(docs, r)
    /\ aggCall' = NoAggCall
    /\ UNCHANGED <<meta, vecVars, storeVars, extVars>>

\* firm_sim_by_period.main() runs on the two files.
RunMain ==
    /\ LET r == main(meta, docs)
       IN  aggCall' = [op |-> "main", outcome |-> r.outcome, err |-> r.err,
                       out |-> r.out,
                       merged |-> NotNa(Merge(meta, docs)),
                       runs |-> Min(aggCall.runs + 1, 2),
                       first |-> IF aggCall.runs = 0 THEN RunResult(r)
                                 ELSE aggCall.first]
    /\ UNCHANGED <<meta, docs, vecVars, storeVars, extVars>>

\* ======================================================================
\* comovement_new.py
\* ======================================================================

\* The trading days tried, as (year, month, day): the last two of 2019Q4,
\* the first two of 2020Q1 and the first of 2020Q2.  A date is its index here.
Calendar == << <<2019, 12, 30>>, <<2019, 12, 31>>, <<2020, 1, 2>>,
               <<2020, 1, 3>>, <<2020, 4, 1>> >>

\* A cell of a series: <<v>> is the number v and NaN a missing value; Absent
\* marks a date the series has no row for.
Absent == <<0, 0>>

\* A pd.Series indexed by date: its rows in date order.
SeriesOf(f) ==
    SelectSeq([d \in 1..Len(Calendar) |-> [date |-> d, val |-> f[d]]],
              LAMBDA r : r.val # Absent)

\* The return series tried: ret_a has every date (its first return is NaN, as
\* diff() leaves it); ret_b may miss dates and values.
RetsA == { SeriesOf([d \in 1..Len(Calendar) |-> IF d = 1 THEN NaN ELSE g[d]]) :
             g \in [2..Len(Calendar) -> {<<0>>, <<1>>}] }
RetsB == { SeriesOf(f) : f \in [1..Len(Calendar) -> {Absent, NaN, <<0>>, <<1>>}] }

\* The value a series has on date d in pd.concat(axis=1): NaN where it has no row.
ValAt(s, d) ==
    IF \E i \in 1..Len(s) : s[i].date = d
    THEN s[CHOOSE i \in 1..Len(s) : s[i].date = d].val
    ELSE NaN

\* pd.concat([ret_a.rename("a"), ret_b.rename("b")], axis=1).dropna()
ConcatDropna(ret_a, ret_b) ==
    SelectSeq([d \in 1..Len(Calendar) |->
                  [date |-> d, a |-> ValAt(ret_a, d), b |-> ValAt(ret_b, d)]],
              LAMBDA r : r.a # NaN /\ r.b # NaN)

RECURSIVE SeqSum(_)
SeqSum(xs) == IF xs = <<>> THEN 0 ELSE Head(xs) + SeqSum(Tail(xs))

\* Pearson correlation of the window of rows i-w+1..i, kept exact as the
\* covariance term and the product of the variance terms: rho is
\* num / sqrt(den2), and NaN when den2 = 0 (a constant column, or w = 1).
WindowCorr(df, i, w) ==
    LET A   == [k \in 1..w |-> df[i - w + k].a[1]]
        B   == [k \in 1..w |-> df[i - w + k].b[1]]
        sa  == SeqSum(A)
        sb  == SeqSum(B)
        sab == SeqSum([k \in 1..w |-> A[k] * B[k]])
        saa == SeqSum([k \in 1..w |-> A[k] * A[k]])
        sbb == SeqSum([k \in 1..w |-> B[k] * B[k]])
    IN  [num  |-> w * sab - sa * sb,
         den2 |-> (w * saa - sa * sa) * (w * sbb - sb * sb)]

\* df["a"].rolling(window).corr(df["b"]): one value per row, indexed by the
\* row's date, NaN for the first window-1 rows.
Rolling(df, w) ==
    [i \in 1..Len(df) |->
        IF i < w THEN [date |-> df[i].date, num |-> 0, den2 |-> 0]
        ELSE [date |-> df[i].date, num |-> WindowCorr(df, i, w).num,
              den2 |-> WindowCorr(df, i, w).den2]]

\* A bug compute_rolling_corr could have: no size check, so too few rows give
\* an empty series.
compute_rolling_corr_unchecked(ret_a, ret_b, window) ==
    [outcome |-> "return", err |-> "none",
     rho |-> SelectSeq(Rolling(ConcatDropna(ret_a, ret_b), window),
                       LAMBDA r : r.den2 # 0)]

\* A bug compute_rolling_corr could have: each value indexed by the first date
\* of its window.
compute_rolling_corr_startdate(ret_a, ret_b, window) ==
    LET df == ConcatDropna(ret_a, ret_b)
    IN  IF Len(df) < window
        THEN [outcome |-> "raise", err |-> "ValueError", rho |-> <<>>]
        ELSE [outcome |-> "return", err |-> "none",
              rho |-> SelectSeq([i \in 1..Len(df) |->
                         IF i < window
                         THEN [date |-> df[i].date, num |-> 0, den2 |-> 0]
                         ELSE [date |-> df[i - window + 1].date,
                               num |-> WindowCorr(df, i, window).num,
                               den2 |-> WindowCorr(df, i, window).den2]],
                         LAMBDA r : r.den2 # 0)]

\* compute_rolling_corr: the size check, the rolling correlation, and
\* rho.dropna(), which drops the NaN values.
compute_rolling_corr(ret_a, ret_b, window) ==
    LET df == ConcatDropna(ret_a, ret_b)
    IN  IF Len(df) < window
        THEN [outcome |-> "raise", err |-> "ValueError", rho |-> <<>>]
        ELSE [outcome |-> "return", err |-> "none",
              rho |-> SelectSeq(Rolling(df, window), LAMBDA r : r.den2 # 0)]

\* str() of a quarterly pandas Period: the four digits of the year, "Q" and
\* the quarter of the month, as code points.
PeriodStr(date) ==
    LET y == date[1]
    IN  <<48 + (y \div 1000), 48 + ((y \div 100) % 10), 48 + ((y \div 10) % 10),
          48 + (y % 10), 81, 48 + ((date[2] - 1) \div 3) + 1>>

\* to_quarter_label, applied to the index of the rolling series
to_quarter_label(dts) == [i \in 1..Len(dts) |-> PeriodStr(Calendar[dts[i]])]

\* agg.groupby("quarter").agg(...).reset_index(): one row per distinct label,
\* in ascending order.  rhos are the group's values, which rho_mean, z_mean
\* and rho_from_mean_z are computed from; n_windows is the group's size.
GroupByQuarter(qlab, rho) ==
    LET agg  == [i \in 1..Len(rho) |->
                    [quarter |-> qlab[i],
                     rho |-> [num |-> rho[i].num, den2 |-> rho[i].den2]]]
        keys == SortLabels({ qlab[i] : i \in 1..Len(qlab) })
    IN  [g \in 1..Len(keys) |->
            LET sub == SelectSeq(agg, LAMBDA r : r.quarter = keys[g])
            IN  [quarter |-> keys[g],
                 rhos |-> [j \in 1..Len(sub) |-> sub[j].rho],
                 n_windows |-> Len(sub)]]

\* --------------------------------------------------------------- actions
NoRets     == [a |-> <<>>, b |-> <<>>, window |-> 1]
NoCorrCall == [op |-> "none", outcome |-> "none", err |-> "none", rho |-> <<>>,
               qlab |-> <<>>, grouped |-> <<>>]

\* compute_rolling_corr is called on the two return series; if it returns,
\* its values are labelled and grouped as main does (lines 121-129).
RollingCorrCall ==
    /\ LET r    == compute_rolling_corr(rets.a, rets.b, rets.window)
           qlab == to_quarter_label([i \in 1..Len(r.rho) |-> r.rho[i].date])
       IN  corrCall' = [op |-> "compute_rolling_corr", outcome |-> r.outcome,
                        err |-> r.err, rho |-> r.rho, qlab |-> qlab,
                        grouped |-> GroupByQuarter(qlab, r.rho)]
    /\ UNCHANGED <<rets, vecVars, storeVars, aggVars, coIn, coCall, tree, pdfCall,
                 pipeIn, pipeCall, dl>>

\* np.log(px).diff(): the series holds log prices, so a return is the
\* difference to the previous row, NaN on the first row and next to a NaN.
to_log_returns(px) ==
    [i \in 1..Len(px) |->
        [date |-> px[i].date,
         val  |-> IF i = 1 \/ px[i].val = NaN \/ px[i - 1].val = NaN THEN NaN
                  ELSE <<px[i].val[1] - px[i - 1].val[1]>>]]

\* The price series tried, as load_price_series_from_csv returns them (sorted
\* by date, not empty): KO moving or flat; PEP complete, with a missing
\* value, or with missing dates.
PxA == { SeriesOf(<< <<0>>, <<1>>, <<0>>, <<0>>, <<1>> >>),
         SeriesOf(<< <<0>>, <<0>>, <<0>>, <<0>>, <<0>> >>) }
PxB == { SeriesOf(<< <<0>>, <<0>>, <<1>>, <<0>>, <<0>> >>),
         SeriesOf(<< <<0>>, <<0>>, NaN, <<0>>, <<1>> >>),
         SeriesOf(<< Absent, <<0>>, <<1>>, Absent, <<0>> >>),
         SeriesOf(<< Absent, Absent, Absent, <<1>>, <<0>> >>) }

\* The period tables tried: two columns, and cells that are empty (read as
\* NaN), "2020Q1" or "1999Q1".
BaseTables ==
    [cols : { <<"period", "note">>, <<"note", "Quarter">>, <<"id", "note">>,
              <<"quarter", "period">> },
     rows : SeqsUpTo([1..2 -> { NaN, <<50, 48, 50, 48, 81, 49>>,
                                <<49, 57, 57, 57, 81, 49>> }], MaxBase)]

\* detect_period_column
RECURSIVE FirstCandidate(_, _)
FirstCandidate(candidates, cols) ==
    IF candidates = <<>> THEN cols[1]
    ELSE IF \E i \in 1..Len(cols) : cols[i] = Head(candidates) THEN Head(candidates)
    ELSE FirstCandidate(Tail(candidates), cols)

detect_period_column(cols) ==
    FirstCandidate(<<"period", "Period", "PERIOD", "quarter", "Quarter", "QUARTER">>, cols)

\* Series.astype(str) of one cell: text stays; a missing value becomes the
\* text "nan", or stays missing where the installed pandas keeps it.
AstypeStr(cell, str_keeps_na) ==
    IF cell # NaN THEN cell
    ELSE IF str_keeps_na THEN NaN ELSE <<110, 97, 110>>

\* base.merge(grouped, left_on=period_col, right_on="quarter", how="left"):
\* each base row in order, once per matching quarter, or once with nulls.
RECURSIVE LeftMerge(_, _, _)
LeftMerge(rows, k, grouped) ==
    IF rows = <<>> THEN <<>>
    ELSE LET l       == Head(rows)
             matches == SelectSeq(grouped, LAMBDA g : g.quarter = l[k])
         IN  (IF matches = <<>>
              THEN << [cells |-> l,
                       agg |-> [null |-> TRUE, quarter |-> NaN, rhos |-> <<>>,
                                n_windows |-> 0]] >>
              ELSE [j \in 1..Len(matches) |->
                      [cells |-> l,
                       agg |-> [null |-> FALSE, quarter |-> matches[j].quarter,
                                rhos |-> matches[j].rhos,
                                n_windows |-> matches[j].n_windows]]])
             \o LeftMerge(Tail(rows), k, grouped)

\* The column names of the merged table: a base column called "quarter" that
\* is not the key is renamed with the suffix _x (and the aggregate's with
\* _y); a key called "quarter" is kept once.
MergedCols(cols, period_col) ==
    LET clash == period_col # "quarter" /\ \E i \in 1..Len(cols) : cols[i] = "quarter"
    IN  [i \in 1..Len(cols) |-> IF clash /\ cols[i] = "quarter" THEN "quarter_x"
                                ELSE cols[i]]
        \o (IF period_col = "quarter" THEN <<>>
            ELSE IF clash THEN <<"quarter_y">> ELSE <<"quarter">>)
        \o <<"rho_mean", "z_mean", "n_windows", "rho_from_mean_z">>

NoTable == [cols |-> <<>>, rows |-> <<>>]

\* comovement_new.main with ROLLING_WINDOW = window: the table it writes to
\* CSV_OUT, or the error of compute_rolling_corr.
co_main(px_a, px_b, window, base, str_keeps_na) ==
    LET period_col == detect_period_column(base.cols)
        k          == CHOOSE c \in 1..Len(base.cols) : base.cols[c] = period_col
        rows       == [i \in 1..Len(base.rows) |->
                         [c \in 1..Len(base.cols) |->
                             IF c = k THEN AstypeStr(base.rows[i][c], str_keeps_na)
                             ELSE base.rows[i][c]]]
        r          == compute_rolling_corr(to_log_returns(px_a),
                                           to_log_returns(px_b), window)
        qlab       == to_quarter_label([i \in 1..Len(r.rho) |-> r.rho[i].date])
        grouped    == GroupByQuarter(qlab, r.rho)
    IN  IF r.outcome = "raise"
        THEN [outcome |-> "raise", err |-> r.err, grouped |-> <<>>, out |-> NoTable]
        ELSE [outcome |-> "return", err |-> "none", grouped |-> grouped,
              out |-> [cols |-> MergedCols(base.cols, period_col)
                                  \o <<"co_mov_tickers", "rolling_window_days">>,
                       rows |-> LeftMerge(rows, k, grouped)]]

NoCoIn   == [px_a |-> <<>>, px_b |-> <<>>, window |-> 1, base |-> NoTable,
             str_keeps_na |-> FALSE]
NoCoCall == [op |-> "none", outcome |-> "none", err |-> "none", grouped |-> <<>>,
             out |-> NoTable]

\* comovement_new.main() runs on the files.
RunCoMain ==
    /\ LET r == co_main(coIn.px_a, coIn.px_b, coIn.window, coIn.base,
                        coIn.str_keeps_na)
       IN  coCall' = [op |-> "main", outcome |-> r.outcome, err |-> r.err,
                      grouped |-> r.grouped, out |-> r.out]
    /\ UNCHANGED <<coIn, vecVars, storeVars, aggVars, rets, corrCall, tree, pdfCall,
                 pipeIn, pipeCall, dl>>

\* ======================================================================
\* pdf_reader.py
\* ======================================================================

\* Text is a sequence of code points.  page.extract_text() gives a text or None.
NonePage == <<-1>>

\* The PDFs tried, as the texts of their pages.
PdfBlank    == << <<32, 9>>, <<10>> >>                        \* " \t", "\n"
PdfOne      == << <<81, 49, 32, 50, 48, 50, 49>> >>           \* "Q1 2021"
PdfTwo      == << <<81, 51, 32, 50, 48, 50, 48, 32>>,
                  <<81, 49, 32, 50, 48, 50, 49>> >>           \* "Q3 2020 ", "Q1 2021"
PdfSkip     == << <<81, 53, 32, 50, 48, 50, 49, 32,
                    81, 50, 32, 50, 48, 50, 50>> >>           \* "Q5 2021 Q2 2022"
PdfEmbedded == << <<70, 65, 81, 52, 32, 50, 48, 50, 53, 49>> >> \* "FAQ4 20251"
PdfSamples  == { << >>,                                        \* no page
                 << NonePage, NonePage >>,
                 PdfBlank,
                 << <<120>> >>,                                 \* "x"
                 PdfOne, PdfTwo, PdfSkip,
                 << <<81, 49>>, <<50, 48, 50, 49>> >>,          \* "Q1", "2021"
                 PdfEmbedded }

\* File and directory names.
NameA   == <<97, 46, 112, 100, 102>>      \* "a.pdf"
NameB   == <<98, 46, 112, 100, 102>>      \* "b.pdf"
NameTxt == <<99, 46, 116, 120, 116>>      \* "c.txt"
NameR   == <<114, 46, 112, 100, 102>>     \* "r.pdf"
DirKo   == <<107, 111>>                   \* "ko"
DirPep  == <<80, 69, 80>>                 \* "PEP"

File(name, pages) == [name |-> name, is_dir |-> FALSE, pages |-> pages, files |-> {}]
Dir(name, files)  == [name |-> name, is_dir |-> TRUE, pages |-> <<>>, files |-> files]

\* The directories tried: "ko" with up to two PDFs and a text file, "PEP" with
\* up to one PDF, and a plain file next to them.
Trees ==
    LET KoDirs  == { Dir(DirKo, a \cup b \cup c) :
                       a \in {{}} \cup { {File(NameA, p)} : p \in PdfSamples },
                       b \in {{}} \cup { {File(NameB, p)} : p \in PdfSamples },
                       c \in { {}, {File(NameTxt, <<>>)} } }
        PepDirs == { Dir(DirPep, a) :
                       a \in {{}} \cup { {File(NameA, p)} : p \in PdfSamples } }
    IN  { k \cup q \cup r : k \in {{}} \cup { {d} : d \in KoDirs },
                             q \in {{}} \cup { {d} : d \in PepDirs },
                             r \in { {}, {File(NameR, PdfOne)} } }

\* str.upper() on code points
Upper(s) == [i \in 1..Len(s) |-> IF s[i] \in 97..122 THEN s[i] - 32 ELSE s[i]]

\* "\n".join(pages_text)
RECURSIVE Join(_)
Join(texts) ==
    IF texts = <<>> THEN <<>>
    ELSE IF Len(texts) = 1 THEN Head(texts)
    ELSE Head(texts) \o <<10>> \o Join(Tail(texts))

\* extract_text_from_pdf
extract_text_from_pdf(pdf) ==
    Join([i \in 1..Len(pdf) |-> IF pdf[i] = NonePage THEN <<>> ELSE pdf[i]])

\* str.strip(): the text without its leading and trailing whitespace
Strip(text) ==
    LET space == {9, 10, 11, 12, 13, 28, 29, 30, 31, 32, 133, 160}
        keep  == { i \in 1..Len(text) : text[i] \notin space }
    IN  IF keep = {} THEN <<>>
        ELSE SubSeq(text, CHOOSE i \in keep : \A j \in keep : i <= j,
                          CHOOSE i \in keep : \A j \in keep : j <= i)

\* The pattern (Q[1-4] \d{4}) matches at position i.
MatchesAt(text, i) ==
    /\ i + 6 <= Len(text)
    /\ text[i] = 81
    /\ text[i + 1] \in 49..52
    /\ text[i + 2] = 32
    /\ \A k \in 3..6 : text[i + k] \in 48..57

\* A bug the search could have: the last match instead of the first.
re_search_last(text) ==
    LET hits == { i \in 1..Len(text) : MatchesAt(text, i) }
    IN  IF hits = {} THEN [found |-> FALSE, group |-> <<>>]
        ELSE LET i == CHOOSE h \in hits : \A j \in hits : j <= h
             IN  [found |-> TRUE, group |-> SubSeq(text, i, i + 6)]

\* re.search(r'(Q[1-4] \d{4})', text): the leftmost match, or None
re_search(text) ==
    LET hits == { i \in 1..Len(text) : MatchesAt(text, i) }
    IN  IF hits = {} THEN [found |-> FALSE, group |-> <<>>]
        ELSE LET i == CHOOSE h \in hits : \A j \in hits : h <= j
             IN  [found |-> TRUE, group |-> SubSeq(text, i, i + 6)]

Names(entries) == SortLabels({ e.name : e \in entries })

\* name matches the glob "*.pdf"
IsPdfName(name) ==
    Len(name) >= 4 /\ SubSeq(name, Len(name) - 3, Len(name)) = <<46, 112, 100, 102>>

\* The inner loop: the Documents of one ticker directory, files in sorted order.
RECURSIVE DirDocuments(_, _, _)
DirDocuments(ticker, files, names) ==
    IF names = <<>> THEN <<>>
    ELSE LET f    == CHOOSE e \in files : e.name = Head(names)
             text == extract_text_from_pdf(f.pages)
             m    == re_search(text)
             rest == DirDocuments(ticker, files, Tail(names))
         IN  IF ~IsPdfName(f.name) THEN rest
             ELSE IF Strip(text) = <<>> THEN rest
             ELSE << [ticker |-> ticker, doc_id |-> f.name, text |-> text,
                      period |-> IF m.found THEN m.group ELSE <<>>] >> \o rest

\* The outer loop: the entries of root_dir in sorted order, directories only.
RECURSIVE WalkRoot(_, _)
WalkRoot(root, names) ==
    IF names = <<>> THEN <<>>
    ELSE LET d == CHOOSE e \in root : e.name = Head(names)
         IN  (IF ~d.is_dir THEN <<>>
              ELSE DirDocuments(Upper(d.name), d.files, Names(d.files)))
             \o WalkRoot(root, Tail(names))

\* iter_documents, run to exhaustion
iter_documents(root) == WalkRoot(root, Names(root))

NoPdfCall == [op |-> "none", docs |-> <<>>]

\* iter_documents(root_dir) is consumed to the end.
IterDocuments ==
    /\ pdfCall' = [op |-> "iter_documents", docs |-> iter_documents(tree)]
    /\ UNCHANGED <<tree, vecVars, storeVars, aggVars, rets, corrCall, coIn, coCall,
                 pipeIn, pipeCall, dl>>

\* ======================================================================
\* pipeline.py
\* ======================================================================

\* The Documents tried: a ticker, a doc_id (None is a field Postgres will
\* reject) and fixed text and period.
PipeDocs == SeqsUpTo([ticker : StoreTickers, doc_id : DocIds \cup {None},
                      text : {"text"}, period : {"Q1 2020"}], MaxPipeDocs)

\* The embeddings argument, an (n, w) array whose row i holds the number i,
\* so that rows can be told apart.
EmbMatrix(n, w) ==
    [shape |-> <<n, w>>, rows |-> [i \in 1..n |-> [j \in 1..w |-> i]]]

\* The keys of ticker_to_indices in dict order: tickers by first appearance.
TickerKeys(ds) ==
    LET firsts == SetToSortedSeq({ i \in 1..Len(ds) :
                     \A j \in 1..(i - 1) : ds[j].ticker # ds[i].ticker })
    IN  [k \in 1..Len(firsts) |-> ds[firsts[k]].ticker]

\* ticker_to_indices[ticker]: the positions of the ticker's documents, ascending.
TickerIndices(ds, ticker) ==
    SetToSortedSeq({ i \in 1..Len(ds) : ds[i].ticker = ticker })

\* A bug line 38 could have: embeddings[:len(indices), :], the first rows
\* instead of the documents' rows.
SubEmbeddingsHead(embeddings, indices) ==
    IF Len(indices) > embeddings.shape[1]
    THEN Raise("IndexError", EmbMatrix(0, 0))
    ELSE Return([shape |-> <<Len(indices), embeddings.shape[2]>>,
                 rows  |-> [k \in 1..Len(indices) |-> embeddings.rows[k]]])

\* embeddings[indices, :]: the rows at the given positions, IndexError when
\* a position is beyond the last row.
SubEmbeddings(embeddings, indices) ==
    IF \E k \in 1..Len(indices) : indices[k] > embeddings.shape[1]
    THEN Raise("IndexError", EmbMatrix(0, 0))
    ELSE Return([shape |-> <<Len(indices), embeddings.shape[2]>>,
                 rows  |-> [k \in 1..Len(indices) |-> embeddings.rows[indices[k]]]])

\* The loop of store_embeddings over the remaining tickers: one
\* insert_documents call per ticker; an error ends the loop. st carries the
\* store's state and the calls made so far.
RECURSIVE TickerLoop(_, _, _, _)
TickerLoop(tickers, ds, embeddings, st) ==
    IF tickers = <<>> \/ st.outcome = "raise" THEN st
    ELSE LET ticker   == Head(tickers)
             indices  == TickerIndices(ds, ticker)
             doc_ids  == [k \in 1..Len(indices) |-> ds[indices[k]].doc_id]
             contents == [k \in 1..Len(indices) |-> ds[indices[k]].text]
             periods  == [k \in 1..Len(indices) |-> ds[indices[k]].period]
             sub      == SubEmbeddings(embeddings, indices)
             r        == insert_documents(st.conn, st.embed_dim, st.schema,
                             st.table, st.nextId, ticker, doc_ids, contents,
                             periods, sub.value)
             call     == [ticker |-> ticker, indices |-> indices,
                          batch |-> Zip4(ticker, doc_ids, contents, periods,
                                         sub.value.rows),
                          shape |-> sub.value.shape,
                          outcome |-> r.outcome, err |-> r.err,
                          connBefore |-> st.conn, before |-> st.table]
         IN  IF sub.outcome = "raise"
             THEN [st EXCEPT !.outcome = "raise", !.err = sub.err]
             ELSE TickerLoop(Tail(tickers), ds, embeddings,
                      [st EXCEPT !.conn = r.conn, !.table = r.table,
                                 !.nextId = r.nextId,
                                 !.calls = Append(@, call),
                                 !.outcome = r.outcome, !.err = r.err])

\* store_embeddings(store, docs, embeddings)
store_embeddings(c, dimCfg, tableDim, tbl, nid, ds, embeddings) ==
    TickerLoop(TickerKeys(ds), ds, embeddings,
               [conn |-> c, embed_dim |-> dimCfg, schema |-> tableDim,
                table |-> tbl, nextId |-> nid, calls |-> <<>>,
                outcome |-> "return", err |-> "none"])

NoPipeIn   == [docs |-> <<>>, embeddings |-> EmbMatrix(0, 0)]
NoPipeCall == [op |-> "none", outcome |-> "none", err |-> "none", docs |-> <<>>,
               embeddings |-> EmbMatrix(0, 0), before |-> <<>>, calls |-> <<>>]

\* store_embeddings(store, docs, embeddings) runs on a store that has been
\* constructed.
StoreEmbeddings ==
    /\ conn # "none"
    /\  LET ds         == pipeIn.docs
            embeddings == pipeIn.embeddings
            r == store_embeddings(conn, embed_dim, schema, table, nextId,
                                  ds, embeddings)
            n == Len(r.calls)
        IN  /\ r.nextId <= MaxId + 1
            /\ conn' = r.conn
            /\ table' = r.table
            /\ nextId' = r.nextId
            /\ storeCall' = IF n = 0 THEN storeCall
                            ELSE [op |-> "insert_documents",
                                  outcome |-> r.calls[n].outcome,
                                  err |-> r.calls[n].err,
                                  connBefore |-> r.calls[n].connBefore,
                                  before |-> r.calls[n].before,
                                  batch |-> r.calls[n].batch,
                                  nDocs |-> Len(r.calls[n].indices),
                                  shape |-> r.calls[n].shape]
            /\ pipeCall' = [op |-> "store_embeddings", outcome |-> r.outcome,
                            err |-> r.err, docs |-> ds, embeddings |-> embeddings,
                            before |-> table, calls |-> r.calls]
    /\ UNCHANGED <<pipeIn, embed_dim, schema, vecVars, aggVars, rets, corrCall, coIn,
                 coCall, tree, pdfCall, dl>>

\* ======================================================================
\* download_data.py
\* ======================================================================

MAX_RETRIES == 5

\* A bug the retry loop could have: one attempt too many.
range_inclusive(n) == 0..n

\* Python's range(n)
range(n) == 0..(n - 1)

NoDl == [pc |-> "idle", k |-> 0, attempts |-> <<>>, stooq |-> "none",
         source |-> "none"]

\* load_prices is called: it calls fetch_yahoo, which enters its loop (or
\* raises at once when the loop has no iteration).
CallLoadPrices ==
    /\ dl.pc = "idle"
    /\ dl' = [dl EXCEPT !.pc = IF 0 \in range(MAX_RETRIES) THEN "yahoo" ELSE "stooq"]
    /\ UNCHANGED <<vecVars, storeVars, aggVars, rets, corrCall, coIn, coCall, tree,
                 pdfCall, pipeIn, pipeCall>>

\* One iteration's try block: yf.download raises, or returns an empty or a
\* non-empty frame (with yfinance's standard columns); a non-empty frame is
\* returned by fetch_yahoo and by load_prices.
YahooAttempt ==
    /\ dl.pc = "yahoo"
    /\ \E o \in {"raise", "empty", "nonempty"} :
          dl' = [dl EXCEPT !.attempts = Append(@, o),
                           !.pc = IF o = "nonempty" THEN "returned" ELSE "sleep",
                           !.source = IF o = "nonempty" THEN "yahoo" ELSE @]
    /\ UNCHANGED <<vecVars, storeVars, aggVars, rets, corrCall, coIn, coCall, tree,
                 pdfCall, pipeIn, pipeCall>>

\* time.sleep(BACKOFF_BASE_SEC * 2 ** k) ends and the loop goes on; after the
\* last iteration fetch_yahoo raises and load_prices turns to Stooq.
Backoff ==
    /\ dl.pc = "sleep"
    /\ dl' = [dl EXCEPT !.k = @ + 1,
                        !.pc = IF dl.k + 1 \in range(MAX_RETRIES) THEN "yahoo"
                               ELSE "stooq"]
    /\ UNCHANGED <<vecVars, storeVars, aggVars, rets, corrCall, coIn, coCall, tree,
                 pdfCall, pipeIn, pipeCall>>

\* fetch_stooq ends, with a frame or with an error (reader error, empty
\* frame, missing column): load_prices returns the frame or raises
\* RuntimeError.
StooqFetch ==
    /\ dl.pc = "stooq"
    /\ \E o \in {"ok", "fail"} :
          dl' = [dl EXCEPT !.stooq = o,
                           !.pc = IF o = "ok" THEN "returned" ELSE "raised",
                           !.source = IF o = "ok" THEN "stooq" ELSE @]
    /\ UNCHANGED <<vecVars, storeVars, aggVars, rets, corrCall, coIn, coCall, tree,
                 pdfCall, pipeIn, pipeCall>>

\* ======================================================================
\* specifications
\* ======================================================================
VecInit   == vec = NoVec /\ vecCall = NoVecCall /\ fitCalled = FALSE
StoreInit == /\ conn = "none" /\ embed_dim = 0 /\ schema = 0
             /\ table = <<>> /\ nextId = 1 /\ storeCall = NoStoreCall
AggInit   == meta = <<>> /\ docs = <<>> /\ aggCall = NoAggCall

\* The other components: the inputs each one is given, and no call made yet.
ExtInit(rs, cs, ts, ps) ==
    /\ rets \in rs /\ corrCall = NoCorrCall
    /\ coIn \in cs /\ coCall = NoCoCall
    /\ tree \in ts /\ pdfCall = NoPdfCall
    /\ pipeIn \in ps /\ pipeCall = NoPipeCall
    /\ dl = NoDl

Init == /\ VecInit /\ StoreInit /\ AggInit
        /\ ExtInit({NoRets}, {NoCoIn}, {{}}, {NoPipeIn})

VecNext == GetVectorizer \/ Fit \/ Transform

SpecVec == Init /\ [][VecNext]_vars

StoreNext == NewStore \/ InitSchema \/ InsertDocuments \/ Close

SpecStore == Init /\ [][StoreNext]_vars

AggNext == AddMeta \/ AddDoc \/ RunMain

SpecAgg == Init /\ [][AggNext]_vars

AggVecNext == AddMetaVec \/ AddDocVec \/ RunMain

SpecAggVec == Init /\ [][AggVecNext]_vars

\* compute_rolling_corr on every pair of return series and window tried.
CorrInit == /\ VecInit /\ StoreInit /\ AggInit
            /\ ExtInit([a : RetsA, b : RetsB, window : 1..MaxWindow],
                       {NoCoIn}, {{}}, {NoPipeIn})

SpecCorr == CorrInit /\ [][RollingCorrCall]_vars

\* comovement_new.main on every combination of files tried.
CoInit == /\ VecInit /\ StoreInit /\ AggInit
          /\ ExtInit({NoRets},
                     [px_a : PxA, px_b : PxB, window : 1..MaxWindow,
                      base : BaseTables, str_keeps_na : BOOLEAN],
                     {{}}, {NoPipeIn})

SpecCo == CoInit /\ [][RunCoMain]_vars

\* iter_documents on every directory tree tried.
PdfInit == /\ VecInit /\ StoreInit /\ AggInit
           /\ ExtInit({NoRets}, {NoCoIn}, Trees, {NoPipeIn})

SpecPdf == PdfInit /\ [][IterDocuments]_vars

\* A store is constructed, its schema created, and store_embeddings run on it.
PipeNext == NewStore \/ InitSchema \/ StoreEmbeddings \/ Close

\* The pipeline holds any of the document lists and embedding arrays tried.
PipeInit == /\ VecInit /\ StoreInit /\ AggInit
            /\ ExtInit({NoRets}, {NoCoIn}, {{}},
                       [docs : PipeDocs,
                        embeddings : { EmbMatrix(n, w) : n \in 0..MaxPipeDocs,
                                                        w \in Widths }])

SpecPipe == PipeInit /\ [][PipeNext]_vars

\* One call of load_prices, step by step.
DlNext == CallLoadPrices \/ YahooAttempt \/ Backoff \/ StooqFetch

\* Every library call (download, sleep, Stooq read) comes back, so a step
\* that can be taken is taken.
SpecDlFair == Init /\ [][DlNext]_vars /\ WF_vars(DlNext)

\* ======================================================================
\* claims
\* ======================================================================

C2_BadShapeWritesNothing ==
    (/\ storeCall.op = "insert_documents"
     /\ (Len(storeCall.shape) # 2 \/ storeCall.shape[2] # embed_dim)) =>
        /\ storeCall.outcome = "raise"
        /\ storeCall.err = "ValueError"
        /\ table = storeCall.before

\* C2 witness: a non-empty batch of the wrong width was refused on an open
\* store whose table already holds rows.
C2_Witness ==
    /\ storeCall.op = "insert_documents"
    /\ storeCall.connBefore = "open"
    /\ Len(storeCall.shape) = 2
    /\ storeCall.shape[2] # embed_dim
    /\ storeCall.shape[1] > 0
    /\ storeCall.nDocs > 0
    /\ storeCall.before # <<>>
    /\ storeCall.err = "ValueError"

\* C3: after an insert_documents call has ended, by returning or by raising
\* at any point, the table holds the rows it held before followed by either
\* every row of the call's batch (the rows zip pairs up) or none of them.
C3_AllOrNothing ==
    storeCall.op = "insert_documents" =>
        \/ table = storeCall.before
        \/ /\ Len(table) = Len(storeCall.before) + Len(storeCall.batch)
           /\ SubSeq(table, 1, Len(storeCall.before)) = storeCall.before
           /\ \A i \in 1..Len(storeCall.batch) :
                 Unstored(table[Len(storeCall.before) + i]) = storeCall.batch[i]

\* C3 witness: the second row of a batch was rejected after the first had
\* been inserted, and the table is as it was.
C3_Witness ==
    /\ storeCall.op = "insert_documents"
    /\ storeCall.outcome = "raise"
    /\ storeCall.err = "NotNullViolation"
    /\ Len(storeCall.batch) = 2
    /\ storeCall.batch[1].doc_id # None
    /\ storeCall.batch[2].doc_id = None
    /\ storeCall.before # <<>>
    /\ table = storeCall.before

\* C6 (as claimed): for either variant, a transform call made before any fit
\* call on the instance raises the not-fitted error and returns no vectors.
C6_TransformBeforeFitFails ==
    (vecCall.op = "transform" /\ ~fitCalled) =>
        /\ vecCall.outcome = "raise"
        /\ vecCall.err = "RuntimeError"
        /\ vecCall.result.rows = <<>>

\* C6 (amended): for the TF-IDF variant a transform call made before any fit
\* call raises the not-fitted error and returns no vectors, and a transform
\* call returns only after fit has been called; the finance variant is
\* fitted from construction, so its transform calls return whether or not
\* fit has been called.
C6_TfidfNeedsFitFinanceDoesNot ==
    vecCall.op = "transform" =>
        /\ vec.kind = "tfidf" =>
              /\ ~fitCalled => /\ vecCall.outcome = "raise"
                               /\ vecCall.err = "RuntimeError"
                               /\ vecCall.result.rows = <<>>
              /\ vecCall.outcome = "return" => fitCalled
        /\ vec.kind = "finance" => vecCall.outcome = "return"

\* C6 witness: transform on a TF-IDF instance no fit was called on raised.
C6_Witness ==
    /\ vecCall.op = "transform"
    /\ vec.kind = "tfidf"
    /\ ~fitCalled
    /\ vecCall.err = "RuntimeError"

\* C7: dim is what it was before every fit and transform call, and every
\* vector a transform call returns has length dim.
C7_TransformWidthIsDim ==
    /\ vecCall.op \in {"fit", "transform"} => dim(vec) = vecCall.dimBefore
    /\ (vecCall.op = "transform" /\ vecCall.outcome = "return") =>
           /\ vecCall.result.shape[2] = dim(vec)
           /\ \A i \in 1..Len(vecCall.result.rows) :
                 Len(vecCall.result.rows[i]) = dim(vec)

\* C8: an insert_documents call that returns, given n documents and n vectors,
\* leaves n more rows in the table and every row that was there unchanged
\* and in place, whether or not the doc_ids were already stored.
C8_InsertAppendsExactlyN ==
    (/\ storeCall.op = "insert_documents"
     /\ storeCall.outcome = "return"
     /\ storeCall.nDocs = storeCall.shape[1]) =>
        /\ Len(table) = Len(storeCall.before) + storeCall.nDocs
        /\ SubSeq(table, 1, Len(storeCall.before)) = storeCall.before

\* C8 witness: a call that returned after inserting a doc_id the table
\* already held.
C8_Witness ==
    /\ storeCall.op = "insert_documents"
    /\ storeCall.outcome = "return"
    /\ storeCall.nDocs = storeCall.shape[1]
    /\ storeCall.nDocs > 0
    /\ \E i \in 1..Len(storeCall.before) :
          storeCall.before[i].doc_id = storeCall.batch[1].doc_id

\* C9 (as claimed): once an insert_documents call has ended the connection
\* has been released.
C9_ConnReleasedAfterInsert ==
    storeCall.op = "insert_documents" => conn # "open"

\* C9 (amended): insert_documents neither opens nor releases the connection:
\* after every call, on the normal and on every error path, the connection is
\* as it was before the call, so the connection opened by the constructor
\* stays open until close() is called.
C9_InsertKeepsConnection ==
    /\ storeCall.op = "insert_documents" => conn = storeCall.connBefore
    /\ (storeCall.op = "insert_documents" /\ storeCall.outcome = "return") =>
           conn = "open"
    /\ conn = "closed" => (storeCall.op = "close" \/ storeCall.connBefore = "closed")

\* C9 witness: an insert_documents call raised in the middle of its batch and
\* the connection is still open.
C9_Witness ==
    /\ storeCall.op = "insert_documents"
    /\ storeCall.err = "NotNullViolation"
    /\ conn = "open"

\* The joined rows of period p hold a document of firm t: a metadata row of
\* t in p and an embedding row with a non-null embedding whose doc_id is the
\* metadata row's source_file up to letter case.
HasDocument(p, t) ==
    \E i \in 1..Len(meta) : \E j \in 1..Len(docs) :
        /\ meta[i].period = p
        /\ meta[i].ticker = t
        /\ docs[j].embedding # NaN
        /\ Len(docs[j].doc_id) = Len(meta[i].source_file)
        /\ \A k \in 1..Len(docs[j].doc_id) :
              LET a == docs[j].doc_id[k]
                  b == meta[i].source_file[k]
              IN  \/ a = b
                  \/ b \in 65..90 /\ a = b + 32
                  \/ a \in 65..90 /\ b = a + 32

\* C4: what a run writes holds a record for period p exactly when the joined
\* rows of p hold a document of KO and a document of PEP.
C4_RecordIffBothFirms ==
    aggCall.op = "main" =>
        \A p \in PeriodLabels :
            (\E i \in 1..Len(aggCall.out) : aggCall.out[i].period = p)
                <=> (HasDocument(p, "KO") /\ HasDocument(p, "PEP"))

\* C4 witness: a run wrote a record for one quarter and none for the other,
\* in which only one of the two firms has a document.
C4_Witness ==
    /\ aggCall.op = "main"
    /\ Len(aggCall.out) = 1
    /\ \E p \in PeriodLabels :
          /\ \A i \in 1..Len(aggCall.out) : aggCall.out[i].period # p
          /\ HasDocument(p, "KO") # HasDocument(p, "PEP")

\* C5: the records a run writes are in strictly ascending lexicographic order
\* of period, hence one record per period, whatever the order of the rows of
\* the two input files.
C5_StrictlyAscending ==
    aggCall.op = "main" =>
        \A i \in 1..Len(aggCall.out) : \A j \in 1..Len(aggCall.out) :
            i < j => LexLess(aggCall.out[i].period, aggCall.out[j].period)

\* C5 witness: a run wrote two records although the later quarter comes
\* first in the metadata file.
C5_Witness ==
    /\ aggCall.op = "main"
    /\ Len(aggCall.out) = 2
    /\ meta[1].period = P20Q1

\* C10: every run of main ends without raising, also when no period holds
\* both firms or the join is empty.
C10_MainNeverRaises ==
    aggCall.op = "main" => aggCall.outcome = "return"

SameUpToCase(a, b) ==
    /\ Len(a) = Len(b)
    /\ \A k \in 1..Len(a) :
          \/ a[k] = b[k]
          \/ b[k] \in 65..90 /\ a[k] = b[k] + 32
          \/ a[k] \in 65..90 /\ b[k] = a[k] + 32

\* The pairs (metadata row, embedding row) the claim says are joined.
JoinPairs ==
    { pr \in (1..Len(meta)) \X (1..Len(docs)) :
        /\ SameUpToCase(meta[pr[1]].source_file, docs[pr[2]].doc_id)
        /\ docs[pr[2]].embedding # NaN }

JoinedRow(pr) ==
    [source_file |-> meta[pr[1]].source_file, ticker_x |-> meta[pr[1]].ticker,
     period |-> meta[pr[1]].period, doc_id |-> docs[pr[2]].doc_id,
     ticker_y |-> docs[pr[2]].ticker, vec |-> docs[pr[2]].embedding]

\* C15: the joined rows are exactly the pairs of a metadata row and an
\* embedding row whose identifiers are equal once lower-cased and whose
\* embedding is non-null, each pair once: rows sharing an identifier are
\* paired each with each.
C15_JoinIsAllMatchingPairs ==
    aggCall.op = "main" =>
        /\ Len(aggCall.merged) = Cardinality(JoinPairs)
        /\ \A pr \in JoinPairs :
              Cardinality({ k \in 1..Len(aggCall.merged) :
                               aggCall.merged[k] = JoinedRow(pr) })
                = Cardinality({ q \in JoinPairs : JoinedRow(q) = JoinedRow(pr) })

\* C15 witness: two metadata rows of different firms share a file name that
\* two stored embedding rows carry, and all four pairs are joined.
C15_Witness ==
    /\ aggCall.op = "main"
    /\ Len(docs) = 2
    /\ docs[1] = docs[2]
    /\ docs[1].embedding # NaN
    /\ \E i \in 1..Len(meta) : \E j \in 1..Len(meta) :
          /\ meta[i].ticker # meta[j].ticker
          /\ SameUpToCase(meta[i].source_file, docs[1].doc_id)
          /\ SameUpToCase(meta[j].source_file, docs[1].doc_id)
    /\ Len(aggCall.merged) >= 4

\* The sum of the embeddings of firm t's joined documents in period p (the
\* mean vector is this sum divided by their number).
RECURSIVE SumOver(_, _, _)
SumOver(prs, p, t) ==
    IF prs = {} THEN <<0, 0>>
    ELSE LET pr   == CHOOSE x \in prs : TRUE
             rest == SumOver(prs \ {pr}, p, t)
             e    == docs[pr[2]].embedding
         IN  IF meta[pr[1]].period = p /\ meta[pr[1]].ticker = t
             THEN <<rest[1] + e[1], rest[2] + e[2]>>
             ELSE rest

\* C16: in every record written, cosine_similarity is 0 (and no NaN) when the
\* mean vector of KO or of PEP is zero, and otherwise the dot product of the
\* two mean vectors over the product of their norms (kept exact, as the
\* numerator and the squared denominator).
C16_ZeroVectorGivesZero ==
    aggCall.op = "main" =>
        \A i \in 1..Len(aggCall.out) :
            LET a   == SumOver(JoinPairs, aggCall.out[i].period, "KO")
                b   == SumOver(JoinPairs, aggCall.out[i].period, "PEP")
                sim == aggCall.out[i].cosine_similarity
            IN  /\ sim.den2 > 0
                /\ IF a = <<0, 0>> \/ b = <<0, 0>>
                   THEN sim.num = 0
                   ELSE /\ sim.num = a[1] * b[1] + a[2] * b[2]
                        /\ sim.den2 = (a[1] * a[1] + a[2] * a[2])
                                        * (b[1] * b[1] + b[2] * b[2])

\* C16 witness: a record was written for a quarter in which KO's mean vector
\* is zero and PEP's is not.
C16_Witness ==
    /\ aggCall.op = "main"
    /\ Len(aggCall.out) = 1
    /\ SumOver(JoinPairs, aggCall.out[1].period, "KO") = <<0, 0>>
    /\ SumOver(JoinPairs, aggCall.out[1].period, "PEP") # <<0, 0>>
    /\ aggCall.out[1].cosine_similarity.num = 0

\* The series has a value (a row that is not NaN) on date d.
HasValue(s, d) == \E i \in 1..Len(s) : s[i].date = d /\ s[i].val # NaN

\* The dates on which both return series have a value.
OverlapDates == { d \in 1..Len(Calendar) : HasValue(rets.a, d) /\ HasValue(rets.b, d) }

\* C12: whenever fewer than window dates carry a value in both return
\* series, compute_rolling_corr raises and returns no series.
C12_TooFewRowsRaises ==
    (corrCall.op = "compute_rolling_corr" /\ Cardinality(OverlapDates) < rets.window) =>
        /\ corrCall.outcome = "raise"
        /\ corrCall.err = "ValueError"
        /\ corrCall.rho = <<>>

\* C12 witness: each series alone has at least window values, the dates they
\* share are fewer, and the call raised.
C12_Witness ==
    /\ corrCall.op = "compute_rolling_corr"
    /\ Cardinality({ d \in 1..Len(Calendar) : HasValue(rets.a, d) }) >= rets.window
    /\ Cardinality({ d \in 1..Len(Calendar) : HasValue(rets.b, d) }) >= rets.window
    /\ Cardinality(OverlapDates) < rets.window
    /\ Cardinality(OverlapDates) > 0
    /\ corrCall.outcome = "raise"

\* The window that ends on date d: the last rets.window shared dates up to d.
WindowEndingAt(d) ==
    { e \in OverlapDates :
        e <= d /\ Cardinality({ x \in OverlapDates : e <= x /\ x <= d }) <= rets.window }

\* The calendar quarter of each date of Calendar, written out.
ExpectedQuarter ==
    << <<50, 48, 49, 57, 81, 52>>, <<50, 48, 49, 57, 81, 52>>,
       <<50, 48, 50, 48, 81, 49>>, <<50, 48, 50, 48, 81, 49>>,
       <<50, 48, 50, 48, 81, 50>> >>

RECURSIVE SumFn(_, _)
SumFn(W, f) ==
    IF W = {} THEN 0
    ELSE LET x == CHOOSE y \in W : TRUE IN f[x] + SumFn(W \ {x}, f)

\* The correlation terms of the two series over the dates W.
CorrOver(W) ==
    LET n  == Cardinality(W)
        fa == [d \in W |-> ValAt(rets.a, d)[1]]
        fb == [d \in W |-> ValAt(rets.b, d)[1]]
        sa == SumFn(W, fa)
        sb == SumFn(W, fb)
    IN  [num  |-> n * SumFn(W, [d \in W |-> fa[d] * fb[d]]) - sa * sb,
         den2 |-> (n * SumFn(W, [d \in W |-> fa[d] * fa[d]]) - sa * sa)
                    * (n * SumFn(W, [d \in W |-> fb[d] * fb[d]]) - sb * sb)]

\* C13: every rolling value is the correlation over a full window of shared
\* dates and carries the quarter label of that window's last date; each
\* label is one row of the aggregate, whose n_windows counts the values whose
\* window ends in that quarter, so the n_windows add up to the number of
\* rolling values.
C13_LabelledByWindowEnd ==
    (corrCall.op = "compute_rolling_corr" /\ corrCall.outcome = "return") =>
        /\ Len(corrCall.qlab) = Len(corrCall.rho)
        /\ \A k \in 1..Len(corrCall.rho) :
              LET d == corrCall.rho[k].date
                  W == WindowEndingAt(d)
              IN  /\ d \in OverlapDates
                  /\ Cardinality(W) = rets.window
                  /\ corrCall.rho[k].num = CorrOver(W).num
                  /\ corrCall.rho[k].den2 = CorrOver(W).den2
                  /\ corrCall.qlab[k] = ExpectedQuarter[d]
                  /\ Cardinality({ g \in 1..Len(corrCall.grouped) :
                                      corrCall.grouped[g].quarter = ExpectedQuarter[d] }) = 1
        /\ \A g \in 1..Len(corrCall.grouped) :
              corrCall.grouped[g].n_windows
                = Cardinality({ k \in 1..Len(corrCall.rho) :
                      ExpectedQuarter[corrCall.rho[k].date] = corrCall.grouped[g].quarter })
        /\ SeqSum([g \in 1..Len(corrCall.grouped) |-> corrCall.grouped[g].n_windows])
             = Len(corrCall.rho)

\* C13 witness: a window that starts on 2019-12-31 and ends on 2020-01-02 is
\* counted in 2020Q1, together with the window ending on 2020-01-03.
C13_Witness ==
    /\ corrCall.op = "compute_rolling_corr"
    /\ corrCall.outcome = "return"
    /\ rets.window = 2
    /\ \E k \in 1..Len(corrCall.rho) :
          /\ corrCall.rho[k].date = 3
          /\ WindowEndingAt(3) = {2, 3}
          /\ corrCall.qlab[k] = <<50, 48, 50, 48, 81, 49>>
    /\ \E g \in 1..Len(corrCall.grouped) :
          /\ corrCall.grouped[g].quarter = <<50, 48, 50, 48, 81, 49>>
          /\ corrCall.grouped[g].n_windows = 2

\* The period column of the caller's table: the first of the six candidate
\* names the table has, else its first column.
PeriodColOf(cols) ==
    LET cands == <<"period", "Period", "PERIOD", "quarter", "Quarter", "QUARTER">>
        hits  == { n \in 1..Len(cands) : \E i \in 1..Len(cols) : cols[i] = cands[n] }
    IN  IF hits = {} THEN 1
        ELSE CHOOSE i \in 1..Len(cols) :
                 cols[i] = cands[CHOOSE n \in hits : \A m \in hits : n <= m]

AggregatedQuarters == { coCall.grouped[g].quarter : g \in 1..Len(coCall.grouped) }

\* C14: the table main writes has one row per row of the period table, in
\* the same order, every cell of the input row unchanged, and null aggregate
\* fields on every row whose period label is not an aggregated quarter.
C14_LeftJoinPreservesInput ==
    (coCall.op = "main" /\ coCall.outcome = "return") =>
        /\ Len(coCall.out.rows) = Len(coIn.base.rows)
        /\ \A i \in 1..Len(coCall.out.rows) :
              /\ coCall.out.rows[i].cells = coIn.base.rows[i]
              /\ coIn.base.rows[i][PeriodColOf(coIn.base.cols)] \notin AggregatedQuarters
                    => coCall.out.rows[i].agg.null

\* The PDFs of the tree whose text has a non-whitespace character: pairs of
\* an entity directory and a file in it.
ReadablePdfs ==
    { pr \in { <<d, f>> : d \in { e \in tree : e.is_dir }, f \in UNION { e.files : e \in tree } } :
        /\ pr[2] \in pr[1].files
        /\ pr[2].name \in {NameA, NameB, NameR}
        /\ \E i \in 1..Len(pr[2].pages) :
              /\ pr[2].pages[i] # NonePage
              /\ \E k \in 1..Len(pr[2].pages[i]) :
                    pr[2].pages[i][k] \notin {9, 10, 11, 12, 13, 32} }

\* The entity of each directory name and the period of each PDF tried,
\* written out.
ExpectedEntity(name) == IF name = DirKo THEN <<75, 79>> ELSE <<80, 69, 80>>
ExpectedPeriod(pages) ==
    CASE pages = PdfOne      -> <<81, 49, 32, 50, 48, 50, 49>>
      [] pages = PdfTwo      -> <<81, 51, 32, 50, 48, 50, 48>>
      [] pages = PdfSkip     -> <<81, 50, 32, 50, 48, 50, 50>>
      [] pages = PdfEmbedded -> <<81, 52, 32, 50, 48, 50, 53>>
      [] OTHER               -> <<>>

\* C17: iter_documents yields one Document for each PDF of an entity
\* directory whose text has a non-whitespace character and nothing else;
\* the Document carries the upper-cased directory name, the file name, and
\* the first match of Q[1-4], a space and four digits in the text, or the
\* empty string.
C17_OneDocumentPerReadablePdf ==
    pdfCall.op = "iter_documents" =>
        /\ Len(pdfCall.docs) = Cardinality(ReadablePdfs)
        /\ \A pr \in ReadablePdfs :
              /\ Cardinality({ k \in 1..Len(pdfCall.docs) :
                                  /\ pdfCall.docs[k].ticker = ExpectedEntity(pr[1].name)
                                  /\ pdfCall.docs[k].doc_id = pr[2].name }) = 1
              /\ \A k \in 1..Len(pdfCall.docs) :
                    (/\ pdfCall.docs[k].ticker = ExpectedEntity(pr[1].name)
                     /\ pdfCall.docs[k].doc_id = pr[2].name)
                    => pdfCall.docs[k].period = ExpectedPeriod(pr[2].pages)

\* C17 witness: one directory holds a PDF with two different quarters in its
\* text and a PDF with blank pages only; one Document was yielded, with the
\* first quarter.
C17_Witness ==
    /\ pdfCall.op = "iter_documents"
    /\ \E d \in tree :
          /\ d.is_dir
          /\ d.name = DirKo
          /\ File(NameA, PdfBlank) \in d.files
          /\ File(NameB, PdfTwo) \in d.files
    /\ \E k \in 1..Len(pdfCall.docs) :
          /\ pdfCall.docs[k].ticker = <<75, 79>>
          /\ pdfCall.docs[k].doc_id = NameB
          /\ pdfCall.docs[k].period = <<81, 51, 32, 50, 48, 50, 48>>
    /\ \A k \in 1..Len(pdfCall.docs) : pdfCall.docs[k].doc_id # NameA

\* The distinct tickers of the documents passed to store_embeddings.
DocTickers == { pipeCall.docs[i].ticker : i \in 1..Len(pipeCall.docs) }

\* The positions (call, place in its batch) at which document i was passed,
\* paired with its own fields and embedding row i.
PassedAt(i) ==
    { pr \in { <<c, j>> : c \in 1..Len(pipeCall.calls), j \in 1..MaxPipeDocs + 1 } :
        /\ pr[2] <= Len(pipeCall.calls[pr[1]].indices)
        /\ pipeCall.calls[pr[1]].indices[pr[2]] = i }

PairedRight(i, pr) ==
    LET call == pipeCall.calls[pr[1]]
    IN  /\ call.ticker = pipeCall.docs[i].ticker
        /\ pr[2] <= Len(call.batch)
        /\ i <= Len(pipeCall.embeddings.rows)
        /\ call.batch[pr[2]] =
              [ticker |-> pipeCall.docs[i].ticker, doc_id |-> pipeCall.docs[i].doc_id,
               content |-> pipeCall.docs[i].text, period |-> pipeCall.docs[i].period,
               embedding |-> pipeCall.embeddings.rows[i]]

\* The rows of every call that returned are stored, after the rows that
\* were there before it, and nothing else was added.
ReturnedCallsStored ==
    /\ \A c \in 1..Len(pipeCall.calls) :
          pipeCall.calls[c].outcome = "return" =>
              \A j \in 1..Len(pipeCall.calls[c].batch) :
                  /\ Len(pipeCall.calls[c].before) + j <= Len(table)
                  /\ Unstored(table[Len(pipeCall.calls[c].before) + j])
                       = pipeCall.calls[c].batch[j]
    /\ Len(table) = Len(pipeCall.before)
         + SeqSum([c \in 1..Len(pipeCall.calls) |->
                     IF pipeCall.calls[c].outcome = "return"
                     THEN Len(pipeCall.calls[c].batch) ELSE 0])
    /\ SubSeq(table, 1, Len(pipeCall.before)) = pipeCall.before

\* C18 as stated: one insert_documents call per distinct ticker, every
\* document passed in exactly one call, the one of its ticker, with its own
\* embedding row, and the rows of earlier tickers kept when a call fails.
C18_OneCallPerTicker ==
    pipeCall.op = "store_embeddings" =>
        /\ \A t \in DocTickers :
              Cardinality({ c \in 1..Len(pipeCall.calls) :
                               pipeCall.calls[c].ticker = t }) = 1
        /\ Len(pipeCall.calls) = Cardinality(DocTickers)
        /\ \A i \in 1..Len(pipeCall.docs) :
              /\ Cardinality(PassedAt(i)) = 1
              /\ \A pr \in PassedAt(i) : PairedRight(i, pr)
        /\ ReturnedCallsStored

\* The first position of a ticker among the documents.
FirstIndexOf(t) ==
    CHOOSE i \in 1..Len(pipeCall.docs) :
        /\ pipeCall.docs[i].ticker = t
        /\ \A j \in 1..(i - 1) : pipeCall.docs[j].ticker # t

\* C18 amended: store_embeddings calls insert_documents for one ticker after
\* the other, in the order the tickers first appear, and stops at the first
\* error.  Every call made is for a different ticker and carries exactly
\* that ticker's documents, each paired with its own embedding row.  When
\* store_embeddings returns, every ticker has had its call; when it raises,
\* only the last call made can have failed, no call was made for the tickers
\* after the failure, and the rows of the calls that returned remain stored.
C18_OneCallPerTickerUntilFailure ==
    pipeCall.op = "store_embeddings" =>
        /\ \A c \in 1..Len(pipeCall.calls) :
              /\ pipeCall.calls[c].ticker \in DocTickers
              /\ { pipeCall.calls[b].ticker : b \in 1..(c - 1) }
                   = { pipeCall.docs[j].ticker :
                         j \in 1..(FirstIndexOf(pipeCall.calls[c].ticker) - 1) }
              /\ pipeCall.calls[c].ticker \notin { pipeCall.calls[b].ticker : b \in 1..(c - 1) }
              /\ c < Len(pipeCall.calls) => pipeCall.calls[c].outcome = "return"
        /\ \A i \in 1..Len(pipeCall.docs) :
              /\ Cardinality(PassedAt(i)) <= 1
              /\ \A pr \in PassedAt(i) : PairedRight(i, pr)
              /\ (\E c \in 1..Len(pipeCall.calls) :
                     pipeCall.calls[c].ticker = pipeCall.docs[i].ticker)
                   => Cardinality(PassedAt(i)) = 1
        /\ pipeCall.outcome = "return" =>
              /\ Len(pipeCall.calls) = Cardinality(DocTickers)
              /\ \A c \in 1..Len(pipeCall.calls) : pipeCall.calls[c].outcome = "return"
        /\ pipeCall.outcome = "raise" =>
              \/ /\ Len(pipeCall.calls) >= 1
                 /\ pipeCall.calls[Len(pipeCall.calls)].outcome = "raise"
              \/ /\ pipeCall.err = "IndexError"
                 /\ Len(pipeCall.calls) < Cardinality(DocTickers)
        /\ ReturnedCallsStored

\* C18 witness: the call for the first ticker returned, the call for the
\* second ticker failed, and the first ticker's row is stored.
C18_Witness ==
    /\ pipeCall.op = "store_embeddings"
    /\ pipeCall.outcome = "raise"
    /\ Len(pipeCall.calls) = 2
    /\ pipeCall.calls[1].outcome = "return"
    /\ pipeCall.calls[2].outcome = "raise"
    /\ pipeCall.calls[1].ticker # pipeCall.calls[2].ticker
    /\ Len(table) = Len(pipeCall.before) + 1
    /\ table[Len(table)].ticker = pipeCall.calls[1].ticker

\* The attempts made so far all failed (raised or returned an empty frame).
AllFailed(n) == \A i \in 1..n : dl.attempts[i] \in {"raise", "empty"}

\* The order of load_prices: at most MAX_RETRIES Yahoo attempts, a return at
\* the first non-empty frame, Stooq only after MAX_RETRIES failed attempts,
\* and an error only after Stooq failed too.
DlOrder ==
    /\ Len(dl.attempts) <= MAX_RETRIES
    /\ AllFailed(Len(dl.attempts) - 1)
    /\ (Len(dl.attempts) > 0 /\ dl.attempts[Len(dl.attempts)] = "nonempty")
          <=> (dl.pc = "returned" /\ dl.source = "yahoo")
    /\ (dl.pc = "stooq" \/ dl.stooq # "none")
          => (Len(dl.attempts) = MAX_RETRIES /\ AllFailed(MAX_RETRIES))
    /\ dl.pc = "raised" => (dl.stooq = "fail" /\ Len(dl.attempts) = MAX_RETRIES /\ AllFailed(MAX_RETRIES))
    /\ (dl.pc = "returned" /\ dl.source = "stooq") => dl.stooq = "ok"
    /\ dl.pc = "returned" => dl.source \in {"yahoo", "stooq"}

====
